---- MODULE Spec2Model ----
(***************************************************************************)
(* Model of the gatekeeper conversation backend (src/app.py): the          *)
(* ConversationSession (two asyncio queues, the event pump _run, the       *)
(* secret release gate), the SessionManager registry and the three HTTP    *)
(* handlers.  asyncio is cooperative: a handler or the pump runs without   *)
(* interruption between two awaits that really suspend, so one action is   *)
(* one such stretch of code.  put() on an unbounded asyncio.Queue never    *)
(* suspends, so _emit_message, _emit_status and _maybe_reveal_secret are   *)
(* part of the stretch that calls them.                                    *)
(*                                                                         *)
(* Python str values are sequences of one-character strings; Optional[str] *)
(* is a sequence of length 0 (None) or 1.                                  *)
(***************************************************************************)
EXTENDS Integers, Sequences, FiniteSets, TLC

VARIABLES
    sessions,      \* the ConversationSession objects, in creation order
    registry,      \* SessionManager._sessions: session id -> index in sessions
    env,           \* per session object: the engine side (pump end, input request, queue getters)
    ghost,         \* per session object: history variables (delivered, accepted, consumed, overlap, ...)
    pollers,       \* the get_events handlers in flight
    starters,      \* session objects whose start_session handler is suspended in start()
    lastResponse,  \* the HTTP response sent last
    nItems,        \* engine items consumed so far, over all sessions
    nPosts         \* messages accepted so far, over all sessions

vars == <<sessions, registry, env, ghost, pollers, starters, lastResponse, nItems, nPosts>>

----------------------------------------------------------------------------
(* Bounds of the model *)

MaxItems == 2
MaxPosts == 2
MaxSessions == 2

----------------------------------------------------------------------------
(* Strings *)

None == << >>
Some(x) == <<x>>

LowerLetters ==
    <<"a","b","c","d","e","f","g","h","i","j","k","l","m",
      "n","o","p","q","r","s","t","u","v","w","x","y","z">>
UpperLetters ==
    <<"A","B","C","D","E","F","G","H","I","J","K","L","M",
      "N","O","P","Q","R","S","T","U","V","W","X","Y","Z">>

\* str.upper() on one character
UpperChar(c) ==
    IF \E i \in 1..Len(LowerLetters) : LowerLetters[i] = c
    THEN UpperLetters[CHOOSE i \in 1..Len(LowerLetters) : LowerLetters[i] = c]
    ELSE c

\* str.upper()
Upper(s) == [i \in 1..Len(s) |-> UpperChar(s[i])]

\* sub in s
Contains(sub, s) ==
    \E i \in 0..(Len(s) - Len(sub)) : SubSeq(s, i + 1, i + Len(sub)) = sub

Whitespace == {" ", "\t", "\n"}

RECURSIVE LStrip(_)
LStrip(s) ==
    IF s # << >> /\ Head(s) \in Whitespace THEN LStrip(Tail(s)) ELSE s

RECURSIVE RStrip(_)
RStrip(s) ==
    IF s # << >> /\ s[Len(s)] \in Whitespace THEN RStrip(SubSeq(s, 1, Len(s) - 1)) ELSE s

\* str.strip()
Strip(s) == RStrip(LStrip(s))

\* truth value of an Optional[str]: None and "" are false
Truthy(opt) == opt # None /\ opt[1] # << >>

MARKER == <<"T","E","R","M","I","N","A","T","E">>
GREETING_ROLE == "greeting_assistant"
GREETING_MESSAGE == <<"H","e","l","l","o"," ","t","h","e","r","e","!">>
\* the value of the environment variable SECRETE_CODE
SECRET_CODE == <<"4","2">>
SecretContent == <<"S","e","c","r","e","t"," ","C","o","d","e",":"," ">> \o SECRET_CODE
TRIGGER ==
    <<"I","s"," ","0",".","0","0","0","0","1","+","0",".","0","0","0","0","1",
      "=","0",".","0","0","0","0","2">>

----------------------------------------------------------------------------
(* ConversationSession *)

\* the dataclass fields and their defaults; emitted is a history variable:
\* every payload ever put on output_queue, in the order of the puts.  The id
\* of a payload stands for the identity of the Python dict object.
NewSession(session_id) ==
    [session_id |-> session_id,
     input_queue |-> << >>,
     output_queue |-> << >>,
     history |-> << >>,
     completed |-> FALSE,
     termination_detected |-> FALSE,
     secret_revealed |-> FALSE,
     stop_reason |-> None,
     task |-> "none",
     emitted |-> << >>]

\* await self.output_queue.put(payload)
output_put(s, payload) ==
    [s EXCEPT !.output_queue = Append(@, payload), !.emitted = Append(@, payload)]

emit_message(s, role, content, message_type) ==
    LET payload == [id |-> Len(s.emitted) + 1, type |-> message_type,
                    role |-> role, content |-> content]
    IN  output_put([s EXCEPT !.history = Append(@, payload)], payload)

\* mutant: status events are recorded in the transcript as well
emit_status_in_history(s, status, details) ==
    LET payload == [id |-> Len(s.emitted) + 1, type |-> "status", status |-> status]
    IN  output_put([s EXCEPT !.history = Append(@, payload)], payload)

emit_status(s, status, details) ==
    LET id == Len(s.emitted) + 1
        payload == IF Truthy(details)
                   THEN [id |-> id, type |-> "status", status |-> status,
                         details |-> details[1]]
                   ELSE [id |-> id, type |-> "status", status |-> status]
    IN  output_put(s, payload)

\* mutant: the gate without its "already revealed" early return
maybe_reveal_secret_no_guard(s) ==
    IF s.termination_detected
       \/ (Truthy(s.stop_reason) /\ Contains(MARKER, Upper(s.stop_reason[1])))
    THEN emit_message([s EXCEPT !.secret_revealed = TRUE],
                      "system", SecretContent, "secret")
    ELSE s

\* mutant: the gate opens on any stop reason, the marker test forgotten
maybe_reveal_secret_any_stop(s) ==
    IF s.secret_revealed
    THEN s
    ELSE IF s.termination_detected \/ Truthy(s.stop_reason)
         THEN emit_message([s EXCEPT !.secret_revealed = TRUE],
                           "system", SecretContent, "secret")
         ELSE s

\* mutant: the gate sets the flag but emits no secret event
maybe_reveal_secret_silent(s) ==
    IF s.secret_revealed
    THEN s
    ELSE IF s.termination_detected
            \/ (Truthy(s.stop_reason) /\ Contains(MARKER, Upper(s.stop_reason[1])))
         THEN [s EXCEPT !.secret_revealed = TRUE]
         ELSE s

maybe_reveal_secret(s) ==
    IF s.secret_revealed
    THEN s
    ELSE IF s.termination_detected
            \/ (Truthy(s.stop_reason) /\ Contains(MARKER, Upper(s.stop_reason[1])))
         THEN emit_message([s EXCEPT !.secret_revealed = TRUE],
                           "system", SecretContent, "secret")
         ELSE s

\* mutant: the chat message is scanned for the marker ignoring case
handle_chat_message_ignore_case(s, message) ==
    LET content == message.text
        t == IF Contains(MARKER, Upper(content))
             THEN [s EXCEPT !.termination_detected = TRUE]
             ELSE s
    IN  emit_message(t, message.source, content, "message")

handle_chat_message(s, message) ==
    LET content == message.text
        t == IF Contains(MARKER, content)
             THEN [s EXCEPT !.termination_detected = TRUE]
             ELSE s
    IN  emit_message(t, message.source, content, "message")

\* the classes of the engine's stream items and their base classes
Bases(class) ==
    CASE class = "TextMessage" -> {"TextMessage", "BaseChatMessage"}
      [] class = "UserInputRequestedEvent" -> {"UserInputRequestedEvent", "BaseAgentEvent"}
      [] class = "ModelClientStreamingChunkEvent" ->
             {"ModelClientStreamingChunkEvent", "BaseAgentEvent"}
      [] class = "ToolCallRequestEvent" -> {"ToolCallRequestEvent", "BaseAgentEvent"}
      [] OTHER -> {class}

IsInstance(item, class) == class \in Bases(item.class)

\* mutant: the terminal result is recorded without running the gate, which is
\* left to the finally clause
run_item_result_no_gate(s, item) ==
    IF IsInstance(item, "TaskResult")
    THEN [s EXCEPT !.completed = TRUE, !.stop_reason = item.stop_reason]
    ELSE IF IsInstance(item, "Response")
    THEN handle_chat_message(s, item.chat_message)
    ELSE IF IsInstance(item, "BaseChatMessage")
    THEN handle_chat_message(s, item)
    ELSE IF IsInstance(item, "UserInputRequestedEvent")
    THEN output_put(s, [id |-> Len(s.emitted) + 1, type |-> "input_required"])
    ELSE IF IsInstance(item, "ModelClientStreamingChunkEvent")
    THEN s
    ELSE IF IsInstance(item, "BaseAgentEvent")
    THEN output_put(s, [id |-> Len(s.emitted) + 1, type |-> "event",
                        role |-> item.source, content |-> item.text])
    ELSE s

\* the body of the loop of _run for one item of the stream
run_item(s, item) ==
    IF IsInstance(item, "TaskResult")
    THEN maybe_reveal_secret([s EXCEPT !.completed = TRUE,
                                       !.stop_reason = item.stop_reason])
    ELSE IF IsInstance(item, "Response")
    THEN handle_chat_message(s, item.chat_message)
    ELSE IF IsInstance(item, "BaseChatMessage")
    THEN handle_chat_message(s, item)
    ELSE IF IsInstance(item, "UserInputRequestedEvent")
    THEN output_put(s, [id |-> Len(s.emitted) + 1, type |-> "input_required"])
    ELSE IF IsInstance(item, "ModelClientStreamingChunkEvent")
    THEN s
    ELSE IF IsInstance(item, "BaseAgentEvent")
    THEN output_put(s, [id |-> Len(s.emitted) + 1, type |-> "event",
                        role |-> item.source, content |-> item.text])
    ELSE s

\* mutant: the except clause forgets self.completed = True
run_except_not_completed(s, exc) ==
    emit_status(s, "error", Some(exc))

\* mutant: the except clause runs the gate before it reports the error
run_except_gate_first(s, exc) ==
    emit_status(maybe_reveal_secret([s EXCEPT !.completed = TRUE]), "error", Some(exc))

\* except Exception as exc
run_except(s, exc) ==
    emit_status([s EXCEPT !.completed = TRUE], "error", Some(exc))

\* mutant: the finally clause does not run the gate again
run_finally_no_gate(s) ==
    IF ~s.completed
    THEN emit_status([s EXCEPT !.completed = TRUE], "ended", None)
    ELSE s

\* finally
run_finally(s) ==
    LET r == maybe_reveal_secret(s)
    IN  IF ~r.completed
        THEN emit_status([r EXCEPT !.completed = TRUE], "ended", None)
        ELSE r

\* mutant: start() without the test of _task
start_unguarded(s) ==
    [emit_message(s, GREETING_ROLE, GREETING_MESSAGE, "message") EXCEPT !.task = "running"]

\* start(), up to its await asyncio.sleep(0)
start(s) ==
    IF s.task = "none"
    THEN [emit_message(s, GREETING_ROLE, GREETING_MESSAGE, "message")
            EXCEPT !.task = "running"]
    ELSE s

\* mutant: the message is put at the front of the input queue
enqueue_user_message_front(s, content) ==
    [s EXCEPT !.input_queue = <<content>> \o @]

\* enqueue_user_message
enqueue_user_message(s, content) ==
    [s EXCEPT !.input_queue = Append(@, content)]

\* drain_output_nowait: the list it returns
drain_output_nowait(s) == s.output_queue

\* mutant: the drain reads the queue without removing anything
drained_keeps(s) == s

\* drain_output_nowait: the session it leaves
drained(s) == [s EXCEPT !.output_queue = << >>]

----------------------------------------------------------------------------
(* The environment: session ids, clients, the dialogue engine *)

\* values uuid.uuid4().hex can take
SessionIds == {"a1", "b2", "c3"}

\* the request tasks that run get_events
Pollers == {1, 2}

\* the timeout query parameter (seconds)
Timeouts == {0, 5}

Str_hi == <<"h","i">>
Str_no == <<"n","o">>
Str_yes_TERMINATE == <<"y","e","s","\n">> \o MARKER
Str_terminate == <<"t","e","r","m","i","n","a","t","e">>
Str_mentioned == <<"T","e","x","t"," ","'">> \o MARKER \o <<"'"," ","m","e","n","t","i","o","n","e","d">>
Str_max_turns == <<"M","a","x"," ","t","u","r","n","s">>
Str_boom == <<"b","o","o","m">>

TextMessage(source, text) == [class |-> "TextMessage", source |-> source, text |-> text]

\* what the opaque engine's stream can yield
EngineItems ==
    {[class |-> "TaskResult", stop_reason |-> r] :
         r \in {None, Some(Str_mentioned), Some(Str_max_turns), Some(Str_terminate)}}
    \cup {TextMessage("Candidate", Str_terminate),
          TextMessage("unhelpful_assistant", Str_yes_TERMINATE),
          [class |-> "Response",
           chat_message |-> TextMessage("unhelpful_assistant", Str_no)]}
    \cup {[class |-> "UserInputRequestedEvent", source |-> "Candidate", text |-> << >>],
          [class |-> "ModelClientStreamingChunkEvent", source |-> "unhelpful_assistant",
           text |-> Str_no],
          [class |-> "ToolCallRequestEvent", source |-> "unhelpful_assistant",
           text |-> Str_no]}

\* str(exc) of the failures the stream can raise
Failures == {Str_boom, << >>}

\* the content field of the bodies clients post
PostContents == {Str_hi, <<" ">> \o Str_hi \o <<"\n">>, Str_no, << >>, <<" ", "\t">>}

NoRequest == [pc |-> "none", token |-> FALSE, item |-> None]

\* pump: how far the task running _run is; result: the stream has yielded its
\* TaskResult, which is the last item of a stream
\* team: where the RoundRobinGroupChat of _create_team is (used by SpecTeam)
NewTeam == [pc |-> "task", used |-> 0, turns |-> 0, stop |-> None]

NewEnv == [pump |-> "running", result |-> FALSE, inp |-> NoRequest, getters |-> << >>,
           team |-> NewTeam]

\* reported: a response of the session has reported completed = true
\* cancel_raced: an input wait was cancelled after a put had resolved its getter
\* again: start() was called on the session another time
NewGhost == [delivered |-> << >>, overlap |-> FALSE, accepted |-> << >>,
             consumed |-> << >>, exact_trigger |-> FALSE, reported |-> FALSE,
             cancel_raced |-> FALSE, again |-> FALSE]

IdlePoller == [pc |-> "idle", obj |-> 0]

Objects == 1..Len(sessions)

Min(a, b) == IF a < b THEN a ELSE b

Init ==
    /\ sessions = << >>
    /\ registry = << >>
    /\ env = << >>
    /\ ghost = << >>
    /\ pollers = [p \in Pollers |-> IdlePoller]
    /\ starters = {}
    /\ lastResponse = [op |-> "none", status |-> 0, path |-> "direct", obj |-> 0,
                       events |-> << >>, completed |-> FALSE,
                       secret_unlocked |-> FALSE]
    /\ nItems = 0
    /\ nPosts = 0

----------------------------------------------------------------------------
(* The event pump: the background task running _run *)

\* One stretch of the pump leaves the session as s2.  Every put on the output
\* queue wakes the first getter still waiting (asyncio.Queue._wakeup_next).
PumpCommit(o, s2, pump, result, team) ==
    LET k == Len(s2.emitted) - Len(sessions[o].emitted)
        g == env[o].getters
        w == Min(k, Len(g))
        wake == {g[i] : i \in 1..w}
    IN  /\ sessions' = [sessions EXCEPT ![o] = s2]
        /\ env' = [env EXCEPT ![o].pump = pump, ![o].result = result,
                               ![o].team = team,
                               ![o].getters = SubSeq(g, w + 1, Len(g))]
        /\ pollers' = [p \in Pollers |->
                          IF p \in wake THEN [pollers[p] EXCEPT !.pc = "woken"]
                          ELSE pollers[p]]

\* async for item in stream: the engine yields an item
PumpItem(o, item) ==
    /\ env[o].pump = "running"
    /\ ~env[o].result
    /\ nItems < MaxItems
    /\ nItems' = nItems + 1
    /\ PumpCommit(o, run_item(sessions[o], item), "running",
                  IsInstance(item, "TaskResult"), env[o].team)
    /\ UNCHANGED <<registry, ghost, starters, lastResponse, nPosts>>

\* the stream raises an Exception: the except clause, then the finally clause
PumpRaise(o, exc) ==
    /\ env[o].pump = "running"
    /\ PumpCommit(o, run_finally(run_except(sessions[o], exc)), "failed", env[o].result,
                  env[o].team)
    /\ UNCHANGED <<registry, ghost, starters, lastResponse, nItems, nPosts>>

\* the stream ends (StopAsyncIteration): the finally clause
PumpExhausted(o) ==
    /\ env[o].pump = "running"
    /\ PumpCommit(o, run_finally(sessions[o]), "exhausted", env[o].result,
                  env[o].team)
    /\ UNCHANGED <<registry, ghost, starters, lastResponse, nItems, nPosts>>

\* the task is cancelled while it awaits the stream: CancelledError is no
\* Exception, so only the finally clause runs
PumpCancelled(o) ==
    /\ env[o].pump = "running"
    /\ PumpCommit(o, run_finally(sessions[o]), "cancelled", env[o].result,
                  env[o].team)
    /\ UNCHANGED <<registry, ghost, starters, lastResponse, nItems, nPosts>>

----------------------------------------------------------------------------
(* SessionManager and the HTTP handlers *)

\* mutant: an unknown identifier falls back to the session created last
get_session_fallback(session_id) ==
    IF session_id \in DOMAIN registry THEN registry[session_id] ELSE Len(sessions)

\* get_session: the session object, 0 for HTTPException(404)
get_session(session_id) ==
    IF session_id \in DOMAIN registry THEN registry[session_id] ELSE 0

\* path is a history field: how the handler came to respond
Response(op, path, o, events) ==
    [op |-> op, status |-> 200, path |-> path, obj |-> o, events |-> events,
     completed |-> IF o = 0 THEN FALSE ELSE sessions'[o].completed,
     secret_unlocked |-> IF o = 0 THEN FALSE ELSE sessions'[o].secret_revealed]

\* a response without events and flags: {"status": "accepted"} or an HTTPException
Plain(op, status, o) ==
    [op |-> op, status |-> status, path |-> "direct", obj |-> o, events |-> << >>,
     completed |-> FALSE, secret_unlocked |-> FALSE]

\* another handler of the same session is in flight while poller p runs
Overlaps(o, p) ==
    \/ o \in starters
    \/ \E q \in Pollers \ {p} : pollers[q].pc # "idle" /\ pollers[q].obj = o

\* POST /api/session up to the await asyncio.sleep(0) of start(): create_session
\* registers a new session under the identifier uuid4 gave and starts it
CreateSession(session_id) ==
    /\ sessions' = Append(sessions, start(NewSession(session_id)))
    /\ registry' = [i \in DOMAIN registry \cup {session_id} |->
                        IF i = session_id THEN Len(sessions) + 1 ELSE registry[i]]
    /\ env' = Append(env, NewEnv)
    /\ ghost' = Append(ghost, NewGhost)
    /\ starters' = starters \cup {Len(sessions) + 1}
    /\ UNCHANGED <<pollers, lastResponse, nItems, nPosts>>

\* A further call of start() on a session, at any time, also while the first
\* call is suspended in its sleep: with _task set the body is skipped and the
\* call returns without suspending.
StartAgain(o) ==
    /\ PumpCommit(o, start(sessions[o]), env[o].pump, env[o].result, env[o].team)
    /\ ghost' = [ghost EXCEPT ![o].again = TRUE]
    /\ UNCHANGED <<registry, starters, lastResponse, nItems, nPosts>>

\* POST /api/session after the sleep: drain and respond
StartSessionReturn(o) ==
    /\ o \in starters
    /\ LET events == drain_output_nowait(sessions[o])
       IN  /\ sessions' = [sessions EXCEPT ![o] = drained(@)]
           /\ ghost' = [ghost EXCEPT ![o].delivered = @ \o events,
                                     ![o].reported = @ \/ sessions[o].completed]
           /\ lastResponse' = Response("start_session", "direct", o, events)
    /\ starters' = starters \ {o}
    /\ UNCHANGED <<registry, env, pollers, nItems, nPosts>>

\* mutant: the content is tested and enqueued without strip()
send_message_no_strip(session_id, raw) ==
    IF get_session(session_id) = 0
    THEN [status |-> 404, content |-> << >>]
    ELSE IF raw = << >>
         THEN [status |-> 400, content |-> << >>]
         ELSE [status |-> 200, content |-> raw]

\* send_message: the status it answers with and the content it enqueues
send_message(session_id, raw) ==
    IF get_session(session_id) = 0
    THEN [status |-> 404, content |-> << >>]
    ELSE IF Strip(raw) = << >>
         THEN [status |-> 400, content |-> << >>]
         ELSE [status |-> 200, content |-> Strip(raw)]

\* POST /api/session/{session_id}/message
SendMessage(session_id, raw) ==
    LET r == send_message(session_id, raw)
        o == get_session(session_id)
    IN  IF r.status = 200
        THEN /\ nPosts < MaxPosts
             /\ nPosts' = nPosts + 1
             /\ sessions' = [sessions EXCEPT ![o] = enqueue_user_message(@, r.content)]
             \* the put wakes the input callback's getter
             /\ env' = [env EXCEPT ![o].inp.pc = IF @ = "wait" THEN "woken" ELSE @]
             /\ ghost' = [ghost EXCEPT ![o].accepted = Append(@, Strip(raw)),
                                       ![o].exact_trigger = @ \/ raw = TRIGGER]
             /\ lastResponse' = Plain("send_message", 200, o)
             /\ UNCHANGED <<registry, pollers, starters, nItems>>
        ELSE /\ lastResponse' = Plain("send_message", r.status, 0)
             /\ UNCHANGED <<sessions, registry, env, ghost, pollers, starters,
                            nItems, nPosts>>

----------------------------------------------------------------------------
(* The input callback _user_input, called by the engine *)

\* input_queue.get() with an item available: the item and the session it leaves
input_get(s) == [item |-> Head(s.input_queue),
                 session |-> [s EXCEPT !.input_queue = Tail(@)]]

\* the callback returns item to the engine
Returned(o, item) == [ghost EXCEPT ![o].consumed = Append(@, item)]

\* The engine calls _user_input.  With a cancellation token the get runs in a
\* task of its own (waiter) that starts at the next turn of the loop; without
\* one the get runs inline and returns at once when an item is queued.
UserInputCall(o, token) ==
    /\ env[o].pump = "running"
    /\ env[o].inp.pc = "none"
    /\ IF token
       THEN /\ env' = [env EXCEPT ![o].inp = [pc |-> "start", token |-> TRUE, item |-> None]]
            /\ UNCHANGED <<sessions, ghost>>
       ELSE IF sessions[o].input_queue # << >>
       THEN /\ sessions' = [sessions EXCEPT ![o] = input_get(@).session]
            /\ ghost' = Returned(o, input_get(sessions[o]).item)
            /\ UNCHANGED env
       ELSE /\ env' = [env EXCEPT ![o].inp = [pc |-> "wait", token |-> FALSE, item |-> None]]
            /\ UNCHANGED <<sessions, ghost>>
    /\ UNCHANGED <<registry, pollers, starters, lastResponse, nItems, nPosts>>

\* The get runs on: the waiter task takes its first step, or a getter woken by
\* a put resumes.  Queue.get loops while the queue is empty.
UserInputGet(o) ==
    /\ env[o].inp.pc \in {"start", "woken"}
    /\ IF sessions[o].input_queue = << >>
       THEN /\ env' = [env EXCEPT ![o].inp.pc = "wait"]
            /\ UNCHANGED <<sessions, ghost>>
       ELSE /\ sessions' = [sessions EXCEPT ![o] = input_get(@).session]
            /\ IF env[o].inp.token
               THEN /\ env' = [env EXCEPT ![o].inp.pc = "got",
                                          ![o].inp.item = Some(input_get(sessions[o]).item)]
                    /\ UNCHANGED ghost
               ELSE /\ env' = [env EXCEPT ![o].inp = NoRequest]
                    /\ ghost' = Returned(o, input_get(sessions[o]).item)
    /\ UNCHANGED <<registry, pollers, starters, lastResponse, nItems, nPosts>>

\* return await waiter: the waiter task is done, the callback resumes
UserInputReturn(o) ==
    /\ env[o].inp.pc = "got"
    /\ env' = [env EXCEPT ![o].inp = NoRequest]
    /\ ghost' = Returned(o, env[o].inp.item[1])
    /\ UNCHANGED <<sessions, registry, pollers, starters, lastResponse, nItems, nPosts>>

\* mutant: a get that is cancelled after a put resolved its getter has taken
\* the item, which is dropped with the cancelled waiter
UserInputCancel_takes_item(o) ==
    /\ env[o].inp.token
    /\ env[o].inp.pc \in {"start", "wait", "woken"}
    /\ env' = [env EXCEPT ![o].inp = NoRequest]
    /\ ghost' = [ghost EXCEPT ![o].cancel_raced =
                     @ \/ (env[o].inp.pc = "woken" /\ sessions[o].input_queue # << >>)]
    /\ sessions' = IF env[o].inp.pc = "woken" /\ sessions[o].input_queue # << >>
                   THEN [sessions EXCEPT ![o] = input_get(@).session]
                   ELSE sessions
    /\ UNCHANGED <<registry, pollers, starters, lastResponse, nItems, nPosts>>

\* The cancellation token fires while the waiter is not done: the waiter is
\* cancelled, Queue.get retracts its getter and takes nothing from the queue.
\* (With the waiter done, cancelling it does nothing and the item is returned.
\* The token cancels the futures linked to it, here the waiter; a cancellation
\* of the task that runs the callback itself is not part of this action.)
UserInputCancel(o) ==
    /\ env[o].inp.token
    /\ env[o].inp.pc \in {"start", "wait", "woken"}
    /\ env' = [env EXCEPT ![o].inp = NoRequest]
    /\ ghost' = [ghost EXCEPT ![o].cancel_raced =
                     @ \/ (env[o].inp.pc = "woken" /\ sessions[o].input_queue # << >>)]
    /\ UNCHANGED <<sessions, registry, pollers, starters, lastResponse,
                   nItems, nPosts>>

----------------------------------------------------------------------------
(* GET /api/session/{session_id}/events *)

\* the handler suspends in wait_for(output_queue.get(), timeout)
get_events_waits(events, timeout) == events = << >> /\ timeout > 0

\* mutant: the item the wait returned is put after the events drained later
get_events_woken_misordered(s) ==
    drain_output_nowait([s EXCEPT !.output_queue = Tail(@)]) \o <<Head(s.output_queue)>>

\* the events list after the wait returned an item: [item] + drain
get_events_woken(s) == <<Head(s.output_queue)>> \o drain_output_nowait(
                           [s EXCEPT !.output_queue = Tail(@)])

\* mutant: after asyncio.TimeoutError the handler answers with an empty list
get_events_timed_out_empty(s) == << >>

\* the events list after asyncio.TimeoutError: [] + drain
get_events_timed_out(s) == << >> \o drain_output_nowait(s)

\* the handler up to its first suspension, or to its response
GetEvents(p, session_id, timeout) ==
    /\ pollers[p].pc = "idle"
    /\ LET o == get_session(session_id)
       IN  IF o = 0
           THEN /\ lastResponse' = Plain("get_events", 404, 0)
                /\ UNCHANGED <<sessions, env, ghost, pollers>>
           ELSE LET events == drain_output_nowait(sessions[o])
                IN  IF get_events_waits(events, timeout)
                    THEN /\ pollers' = [pollers EXCEPT ![p] = [pc |-> "wait", obj |-> o]]
                         /\ env' = [env EXCEPT ![o].getters = Append(@, p)]
                         /\ ghost' = [ghost EXCEPT ![o].overlap = @ \/ Overlaps(o, p)]
                         /\ UNCHANGED <<sessions, lastResponse>>
                    ELSE /\ sessions' = [sessions EXCEPT ![o] = drained(@)]
                         /\ ghost' = [ghost EXCEPT
                                ![o].delivered = @ \o events,
                                ![o].overlap = @ \/ Overlaps(o, p),
                                ![o].reported = @ \/ sessions[o].completed]
                         /\ lastResponse' = Response("get_events", "direct", o, events)
                         /\ UNCHANGED <<env, pollers>>
    /\ UNCHANGED <<registry, starters, nItems, nPosts>>

\* A put resolved the getter and the handler resumes.  Queue.get loops while the
\* queue is empty (another handler may have taken the item meanwhile).
GetEventsResume(p) ==
    /\ pollers[p].pc = "woken"
    /\ LET o == pollers[p].obj
       IN  IF sessions[o].output_queue = << >>
           THEN /\ pollers' = [pollers EXCEPT ![p].pc = "wait"]
                /\ env' = [env EXCEPT ![o].getters = Append(@, p)]
                /\ UNCHANGED <<sessions, ghost, lastResponse>>
           ELSE LET events == get_events_woken(sessions[o])
                IN  /\ sessions' = [sessions EXCEPT ![o] = drained(@)]
                    /\ ghost' = [ghost EXCEPT ![o].delivered = @ \o events,
                                              ![o].reported = @ \/ sessions[o].completed]
                    /\ lastResponse' = Response("get_events", "woken", o, events)
                    /\ pollers' = [pollers EXCEPT ![p] = IdlePoller]
                    /\ UNCHANGED env
    /\ UNCHANGED <<registry, starters, nItems, nPosts>>

\* The timeout lapses: CancelledError is thrown into Queue.get, which removes
\* its getter and, if that getter was already resolved and the queue is not
\* empty, wakes the next one; wait_for raises TimeoutError, the handler drains.
GetEventsTimeout(p) ==
    /\ pollers[p].pc \in {"wait", "woken"}
    /\ LET o == pollers[p].obj
           g == SelectSeq(env[o].getters, LAMBDA q : q # p)
           passOn == pollers[p].pc = "woken" /\ sessions[o].output_queue # << >>
                     /\ g # << >>
           events == get_events_timed_out(sessions[o])
       IN  /\ env' = [env EXCEPT ![o].getters = IF passOn THEN Tail(g) ELSE g]
           /\ pollers' = [q \in Pollers |->
                             IF q = p THEN IdlePoller
                             ELSE IF passOn /\ q = Head(g)
                                  THEN [pollers[q] EXCEPT !.pc = "woken"]
                                  ELSE pollers[q]]
           /\ sessions' = [sessions EXCEPT ![o] = drained(@)]
           /\ ghost' = [ghost EXCEPT ![o].delivered = @ \o events,
                                     ![o].reported = @ \/ sessions[o].completed]
           /\ lastResponse' = Response("get_events", "timeout", o, events)
    /\ UNCHANGED <<registry, starters, nItems, nPosts>>

----------------------------------------------------------------------------
(* The team of _create_team as the engine: RoundRobinGroupChat([Candidate,    *)
(* unhelpful_assistant], TextMentionTermination("TERMINATE"), max_turns=20).  *)
(* The stream yields the task message, then turn by turn: for the Candidate   *)
(* (a UserProxyAgent) a UserInputRequestedEvent, the call of the input        *)
(* callback, and the line it returned as the Candidate's chat message; for    *)
(* the assistant one chat message, which follows its system message: the      *)
(* two lines yes / TERMINATE if the latest user message is the exact          *)
(* trigger, an ordinary reply otherwise.  After every chat message the        *)
(* termination condition is tested; the stream ends with a TaskResult.        *)

MAX_TURNS == 20

Str_task == <<"m","a","k","e"," ","t","h","e"," ","a","s","s","i","s","t","a","n","t",
              " ","s","a","y"," ","'","y","e","s",".","'">>

\* replies of the assistant in its unhelpful mode
OrdinaryReplies == {Str_no}

\* the content field of the bodies clients post to a session run by the team
TeamPostContents ==
    {Str_hi, TRIGGER, <<" ">> \o TRIGGER \o <<"\n">>, Upper(TRIGGER), MARKER, <<" ">>}

\* the stream yields item and the team moves on
TeamYield(o, item, team) ==
    /\ env[o].pump = "running"
    /\ ~env[o].result
    /\ PumpCommit(o, run_item(sessions[o], item), "running",
                  IsInstance(item, "TaskResult"), team)
    /\ UNCHANGED <<registry, ghost, starters, lastResponse, nItems, nPosts>>

\* the team after a chat message with this text ended a turn:
\* TextMentionTermination("TERMINATE"), then max_turns
AfterTurn(team, text, next) ==
    LET turns == team.turns + 1
    IN  IF Contains(MARKER, text)
        THEN [team EXCEPT !.pc = "result", !.turns = turns, !.stop = Some(Str_mentioned)]
        ELSE IF turns >= MAX_TURNS
        THEN [team EXCEPT !.pc = "result", !.turns = turns, !.stop = Some(Str_max_turns)]
        ELSE [team EXCEPT !.pc = next, !.turns = turns]

\* run_stream(task=...): the task as the first chat message, source "user"
TeamTask(o) ==
    /\ env[o].team.pc = "task"
    /\ TeamYield(o, TextMessage("user", Str_task), [env[o].team EXCEPT !.pc = "candidate"])

\* the Candidate's turn begins
TeamInputRequested(o) ==
    /\ env[o].team.pc = "candidate"
    /\ TeamYield(o, [class |-> "UserInputRequestedEvent", source |-> "Candidate",
                     text |-> << >>],
                 [env[o].team EXCEPT !.pc = "input"])

\* the Candidate calls input_func(prompt, cancellation_token)
TeamAskInput(o) ==
    /\ env[o].team.pc = "input"
    /\ Len(ghost[o].consumed) = env[o].team.used
    /\ UserInputCall(o, TRUE)

\* the callback has returned a line: the Candidate's chat message
TeamCandidateMessage(o) ==
    /\ env[o].team.pc = "input"
    /\ Len(ghost[o].consumed) > env[o].team.used
    /\ LET line == ghost[o].consumed[env[o].team.used + 1]
       IN  TeamYield(o, TextMessage("Candidate", line),
                     AfterTurn([env[o].team EXCEPT !.used = @ + 1], line, "assistant"))

\* the assistant's turn
TeamAssistantMessage(o, reply) ==
    /\ env[o].team.pc = "assistant"
    /\ LET text == IF ghost[o].consumed[env[o].team.used] = TRIGGER
                   THEN Str_yes_TERMINATE
                   ELSE reply
       IN  TeamYield(o, TextMessage("unhelpful_assistant", text),
                     AfterTurn(env[o].team, text, "candidate"))

\* the terminal result
TeamResult(o) ==
    /\ env[o].team.pc = "result"
    /\ TeamYield(o, [class |-> "TaskResult", stop_reason |-> env[o].team.stop],
                 [env[o].team EXCEPT !.pc = "end"])

\* the stream ends
TeamEnd(o) ==
    /\ env[o].team.pc = "end"
    /\ PumpExhausted(o)

----------------------------------------------------------------------------
(* Specifications.  The engine is opaque: its stream may yield any item at   *)
(* any time, whatever input it was given, so the output side (pump, gate,    *)
(* polling) and the input side (posts, input callback) of a session do not   *)
(* constrain each other and are explored separately.  Sessions share no      *)
(* state (each handler and each pump touches the one session it looked up),  *)
(* so each specification follows the first session created.                  *)

\* the pump and the secret gate under every item sequence, one polling client
Next ==
    \/ \E id \in SessionIds : sessions = << >> /\ CreateSession(id)
    \/ \E o \in Objects : StartSessionReturn(o)
    \/ \E o \in Objects, item \in EngineItems : PumpItem(o, item)
    \/ \E o \in Objects, exc \in Failures : PumpRaise(o, exc)
    \/ \E o \in Objects : PumpExhausted(o)
    \/ \E o \in Objects : PumpCancelled(o)
    \/ \E id \in SessionIds, timeout \in Timeouts : GetEvents(1, id, timeout)
    \/ GetEventsResume(1)
    \/ GetEventsTimeout(1)

Spec == Init /\ [][Next]_vars

\* the items the polling specification lets the engine yield
PollItems ==
    {TextMessage("unhelpful_assistant", Str_no),
     [class |-> "UserInputRequestedEvent", source |-> "Candidate", text |-> << >>],
     [class |-> "ModelClientStreamingChunkEvent", source |-> "unhelpful_assistant",
      text |-> Str_no]}

\* polling: concurrent get_events handlers against the pump
NextPoll ==
    \/ \E id \in SessionIds : sessions = << >> /\ CreateSession(id)
    \/ \E o \in Objects : StartSessionReturn(o)
    \/ \E o \in Objects, item \in PollItems : PumpItem(o, item)
    \/ \E o \in Objects : PumpExhausted(o)
    \/ \E p \in Pollers, id \in SessionIds, timeout \in Timeouts : GetEvents(p, id, timeout)
    \/ \E p \in Pollers : GetEventsResume(p)
    \/ \E p \in Pollers : GetEventsTimeout(p)

SpecPoll == Init /\ [][NextPoll]_vars

\* the input side: posts against the engine's input requests
NextInput ==
    \/ \E id \in SessionIds : sessions = << >> /\ CreateSession(id)
    \/ \E o \in Objects : StartSessionReturn(o)
    \/ \E id \in SessionIds, raw \in PostContents : SendMessage(id, raw)
    \/ \E o \in Objects, token \in BOOLEAN : UserInputCall(o, token)
    \/ \E o \in Objects : UserInputGet(o)
    \/ \E o \in Objects : UserInputReturn(o)
    \/ \E o \in Objects : UserInputCancel(o)
    \/ \E o \in Objects : PumpExhausted(o)
    \/ \E id \in SessionIds, timeout \in Timeouts : GetEvents(1, id, timeout)
    \/ GetEventsResume(1)
    \/ GetEventsTimeout(1)

SpecInput == Init /\ [][NextInput]_vars

\* a session whose engine is the team of _create_team, one polling client
NextTeam ==
    \/ \E id \in SessionIds : sessions = << >> /\ CreateSession(id)
    \/ \E o \in Objects : StartSessionReturn(o)
    \/ \E id \in DOMAIN registry, raw \in TeamPostContents : SendMessage(id, raw)
    \/ \E o \in Objects : TeamTask(o)
    \/ \E o \in Objects : TeamInputRequested(o)
    \/ \E o \in Objects : TeamAskInput(o)
    \/ \E o \in Objects : UserInputGet(o)
    \/ \E o \in Objects : UserInputReturn(o)
    \/ \E o \in Objects : TeamCandidateMessage(o)
    \/ \E o \in Objects, reply \in OrdinaryReplies : TeamAssistantMessage(o, reply)
    \/ \E o \in Objects : TeamResult(o)
    \/ \E o \in Objects : TeamEnd(o)
    \/ \E id \in DOMAIN registry, timeout \in Timeouts : GetEvents(1, id, timeout)
    \/ GetEventsResume(1)
    \/ GetEventsTimeout(1)

SpecTeam == Init /\ [][NextTeam]_vars

\* start() called again on a session that is running and being polled
NextStart ==
    \/ \E id \in SessionIds : sessions = << >> /\ CreateSession(id)
    \/ \E o \in Objects : StartSessionReturn(o)
    \/ \E o \in Objects : StartAgain(o)
    \/ \E o \in Objects, item \in PollItems : PumpItem(o, item)
    \/ \E o \in Objects : PumpExhausted(o)
    \/ \E id \in SessionIds, timeout \in Timeouts : GetEvents(1, id, timeout)
    \/ GetEventsResume(1)
    \/ GetEventsTimeout(1)

SpecStart == Init /\ [][NextStart]_vars

\* an identifier a client can name: one a POST /api/session response has
\* returned, or one that is not registered
Known(id) ==
    \/ id \notin DOMAIN registry
    \/ \E o \in Objects \ starters : sessions[o].session_id = id

\* the registry: several sessions are created, uuid4 draws each identifier
NextRegistry ==
    \/ \E id \in SessionIds : Len(sessions) < MaxSessions /\ CreateSession(id)
    \/ \E o \in Objects : StartSessionReturn(o)
    \/ \E o \in Objects, item \in PollItems : PumpItem(o, item)
    \/ \E o \in Objects : PumpExhausted(o)
    \/ \E id \in SessionIds, timeout \in Timeouts : Known(id) /\ GetEvents(1, id, timeout)
    \/ GetEventsResume(1)
    \/ GetEventsTimeout(1)

SpecRegistry == Init /\ [][NextRegistry]_vars

\* The end-to-end run: one client creates a session, posts 'hi', posts the
\* trigger and keeps polling the identifier it was given; the engine is the team.
ClientPosts ==
    \E id \in DOMAIN registry :
        /\ Known(id)
        /\ \/ nPosts = 0 /\ SendMessage(id, Str_hi)
           \/ nPosts = 1 /\ SendMessage(id, TRIGGER)

ClientPolls ==
    \E id \in DOMAIN registry, timeout \in Timeouts : Known(id) /\ GetEvents(1, id, timeout)

\* the steps of the task running _run: the team's stream and the input callback
PumpSteps ==
    \E o \in Objects :
        \/ TeamTask(o)
        \/ TeamInputRequested(o)
        \/ TeamAskInput(o)
        \/ UserInputGet(o)
        \/ UserInputReturn(o)
        \/ TeamCandidateMessage(o)
        \/ \E reply \in OrdinaryReplies : TeamAssistantMessage(o, reply)
        \/ TeamResult(o)
        \/ TeamEnd(o)

NextLive ==
    \/ \E id \in SessionIds : sessions = << >> /\ CreateSession(id)
    \/ \E o \in Objects : StartSessionReturn(o)
    \/ ClientPosts
    \/ PumpSteps
    \/ ClientPolls
    \/ GetEventsResume(1)
    \/ GetEventsTimeout(1)

\* The event loop runs every task and handler that is ready (the pump, a
\* handler after sleep(0) or after its getter was resolved), the timer of
\* wait_for fires, and the client carries out its run and keeps polling.
Fairness ==
    /\ WF_vars(\E id \in SessionIds : sessions = << >> /\ CreateSession(id))
    /\ WF_vars(\E o \in Objects : StartSessionReturn(o))
    /\ WF_vars(ClientPosts)
    /\ WF_vars(PumpSteps)
    /\ WF_vars(ClientPolls)
    /\ WF_vars(GetEventsResume(1) \/ GetEventsTimeout(1))

SpecLive == Init /\ [][NextLive]_vars /\ Fairness

----------------------------------------------------------------------------
(* Properties of the pump and the secret gate (Spec) *)

\* the positions of the events of one type in everything a session emitted
EventsOfType(s, type) == {i \in 1..Len(s.emitted) : s.emitted[i].type = type}

\* the recorded stop reason contains the marker, ignoring case
StopHasMarker(s) ==
    s.stop_reason # None /\ Contains(MARKER, Upper(s.stop_reason[1]))

PumpFinished(o) == env[o].pump # "running"

\* C1: at most one event of type 'secret' is ever put on a session's output
\* queue, and secret_revealed, once true, never becomes false again.
C1_SecretAtMostOnce ==
    /\ [](\A o \in Objects : Cardinality(EventsOfType(sessions[o], "secret")) <= 1)
    /\ [][\A o \in Objects : sessions[o].secret_revealed => sessions'[o].secret_revealed]_vars

\* C1 witness: the secret was released at the terminal result and the finally
\* clause has run the gate again
C1_Witness ==
    \E o \in Objects :
        /\ env[o].pump = "exhausted"
        /\ env[o].result
        /\ sessions[o].secret_revealed
        /\ EventsOfType(sessions[o], "secret") # {}

\* C2: in every step that emits a secret event or sets secret_revealed, the
\* session then has termination_detected true or a stop reason containing the
\* marker (ignoring case).
C2_SecretOnlyOnTrigger ==
    [][\A o \in Objects :
          (\/ ~sessions[o].secret_revealed /\ sessions'[o].secret_revealed
           \/ EventsOfType(sessions'[o], "secret") # EventsOfType(sessions[o], "secret"))
          => (sessions'[o].termination_detected \/ StopHasMarker(sessions'[o]))]_vars

\* C2 witness: a secret released on the stop reason alone (no chat message
\* held the marker), in a session whose stream failed afterwards
C2_Witness ==
    \E o \in Objects :
        /\ sessions[o].secret_revealed
        /\ ~sessions[o].termination_detected
        /\ StopHasMarker(sessions[o])
        /\ env[o].pump = "failed"

\* C3: once the pump task has finished (or has received the terminal result),
\* secret_revealed holds exactly when termination_detected holds or the stop
\* reason contains the marker.
C3_RevealIffTrigger ==
    \A o \in Objects :
        (PumpFinished(o) \/ env[o].result) =>
            (sessions[o].secret_revealed <=>
                (sessions[o].termination_detected \/ StopHasMarker(sessions[o])))

\* C3 witness: the marker was seen in a chat message, then the stream failed
\* before any terminal result, and the secret is revealed
C3_Witness ==
    \E o \in Objects :
        /\ env[o].pump = "failed"
        /\ ~env[o].result
        /\ sessions[o].termination_detected
        /\ sessions[o].secret_revealed

\* C10 as stated: every way the pump can end leaves completed = true and one
\* more status event on the output queue.
C10_AlwaysStatusEvent ==
    \A o \in Objects :
        PumpFinished(o) =>
            /\ sessions[o].completed
            /\ EventsOfType(sessions[o], "status") # {}

\* C10 amended: every way the pump can end leaves completed = true; exactly
\* one status event is emitted when the stream raised a failure or when it
\* ended (or the task was cancelled) before a terminal result, and none when
\* the stream ended after its terminal result.
C10_CompletedAndStatus ==
    \A o \in Objects :
        PumpFinished(o) =>
            /\ sessions[o].completed
            /\ Cardinality(EventsOfType(sessions[o], "status")) =
                   IF env[o].pump = "failed" \/ ~env[o].result THEN 1 ELSE 0

\* C10 witness: the stream ended after a terminal result: completed, no status
C10_Witness ==
    \E o \in Objects :
        /\ env[o].pump = "exhausted"
        /\ env[o].result
        /\ sessions[o].completed
        /\ EventsOfType(sessions[o], "status") = {}

----------------------------------------------------------------------------
(* Properties of polling (SpecPoll) *)

IsPrefix(a, b) == Len(a) <= Len(b) /\ a = SubSeq(b, 1, Len(a))

\* C5: for a session polled by one client at a time, the concatenation of the
\* events lists of its responses (POST /session, then the GET events calls) is
\* a prefix of the events in the order the session emitted them.
C5_SinglePollerPrefix ==
    \A o \in Objects :
        ~ghost[o].overlap => IsPrefix(ghost[o].delivered, sessions[o].emitted)

\* C5 witness: one client at a time has received the greeting and, through a
\* long-poll that was woken, later events, while the pump goes on
C5_Witness ==
    \E o \in Objects :
        /\ ~ghost[o].overlap
        /\ Len(ghost[o].delivered) >= 3
        /\ lastResponse.op = "get_events"
        /\ lastResponse.path = "woken"
        /\ Len(lastResponse.events) >= 2

\* C6: with concurrent GET events calls every emitted event is in exactly one
\* response or still in the output queue, and within each response the events
\* are in emission order.
C6_NoLossNoDuplicate ==
    /\ \A o \in Objects :
          LET all == ghost[o].delivered \o sessions[o].output_queue
          IN  /\ Len(all) = Len(sessions[o].emitted)
              /\ {all[i].id : i \in 1..Len(all)} = 1..Len(sessions[o].emitted)
              /\ \A i \in 1..Len(all) : all[i] = sessions[o].emitted[all[i].id]
    /\ \A i, j \in 1..Len(lastResponse.events) :
          i < j => lastResponse.events[i].id < lastResponse.events[j].id

\* C6 witness: two handlers of one session were in flight together, one has
\* timed out and returned events while the other is still suspended
C6_Witness ==
    \E o \in Objects :
        /\ ghost[o].overlap
        /\ lastResponse.path = "timeout"
        /\ lastResponse.events # << >>
        /\ \E p \in Pollers : pollers[p].pc # "idle" /\ pollers[p].obj = o
        /\ Len(ghost[o].delivered) >= 3

----------------------------------------------------------------------------
(* Properties of the input side and of request validation (SpecInput) *)

\* the item the waiter task of _user_input has taken and not yet returned
Held(o) == IF env[o].inp.pc = "got" THEN env[o].inp.item ELSE << >>

\* empty or only whitespace
Blank(raw) == \A i \in 1..Len(raw) : raw[i] \in Whitespace

\* everything of the state but the response sent last
allButResponse == <<sessions, registry, env, ghost, pollers, starters, nItems, nPosts>>

\* C7: the values the input callback returned are, in order, the first accepted
\* messages (as trimmed); the accepted messages not yet returned are buffered
\* in posting order (taken by the waiter, or in the input queue), none is
\* dropped and none is returned twice.
C7_InputFifo ==
    \A o \in Objects :
        ghost[o].consumed \o Held(o) \o sessions[o].input_queue = ghost[o].accepted

\* C7 witness: two different messages, posted before the engine asked, were
\* returned to two input requests in posting order
C7_Witness ==
    \E o \in Objects :
        /\ Len(ghost[o].consumed) = 2
        /\ ghost[o].consumed[1] # ghost[o].consumed[2]
        /\ ghost[o].consumed = ghost[o].accepted

\* C8: a POST message on an existing session with blank content answers 400
\* and changes nothing; with content that is not blank it answers 200 and has
\* appended the trimmed content to the input queue in the same step, whatever
\* the engine is doing.
C8_BlankRejected ==
    [][\A id \in DOMAIN registry, raw \in PostContents :
          SendMessage(id, raw) =>
              IF Blank(raw)
              THEN /\ lastResponse'.status = 400
                   /\ UNCHANGED allButResponse
              ELSE /\ lastResponse'.status = 200
                   /\ sessions'[registry[id]].input_queue =
                          Append(sessions[registry[id]].input_queue, Strip(raw))
                   /\ sessions'[registry[id]].output_queue =
                          sessions[registry[id]].output_queue]_vars

\* C8 witness: a blank post was rejected on a session that holds a buffered
\* message
C8_Witness ==
    /\ lastResponse.op = "send_message"
    /\ lastResponse.status = 400
    /\ \E o \in Objects : sessions[o].input_queue # << >>

\* C9: a POST message or GET events call naming an identifier that is not in
\* the registry answers 404, whatever its other arguments (blank content
\* included), creates no session and changes no session.
C9_UnknownSession404 ==
    [][\A id \in SessionIds \ DOMAIN registry :
          /\ \A raw \in PostContents :
                SendMessage(id, raw) =>
                    (lastResponse'.status = 404 /\ UNCHANGED allButResponse)
          /\ \A p \in Pollers, timeout \in Timeouts :
                GetEvents(p, id, timeout) =>
                    (lastResponse'.status = 404 /\ UNCHANGED allButResponse)]_vars

\* C9 witness: a call was answered 404 while a session with a buffered message
\* exists
C9_Witness ==
    /\ lastResponse.status = 404
    /\ \E o \in Objects : sessions[o].input_queue # << >>

----------------------------------------------------------------------------
(* Properties of the session run by the team (SpecTeam) *)

\* C4: as long as no accepted post was the exact trigger string, no secret
\* event is emitted and secret_revealed stays false.
C4_OnlyExactTrigger ==
    \A o \in Objects :
        ~ghost[o].exact_trigger =>
            /\ EventsOfType(sessions[o], "secret") = {}
            /\ ~sessions[o].secret_revealed

----------------------------------------------------------------------------
(* Properties of the pump's failure path (Spec) *)

\* the events a step adds to what session o has emitted
NewEvents(o) ==
    SubSeq(sessions'[o].emitted, Len(sessions[o].emitted) + 1, Len(sessions'[o].emitted))

\* the events of a failed stream: one status 'error', no 'ended'
OneErrorStatus(s) ==
    /\ Cardinality(EventsOfType(s, "status")) = 1
    /\ \A i \in EventsOfType(s, "status") : s.emitted[i].status = "error"

\* C17 as stated: when the stream raises a failure the session ends completed,
\* the step emits a status 'error' carrying the failure description as
\* details, then at most a secret event and nothing else; the session holds
\* exactly one status event, none of them 'ended'.
C17_ErrorWithDetails ==
    /\ [](\A o \in Objects : env[o].pump = "failed" =>
              sessions[o].completed /\ OneErrorStatus(sessions[o]))
    /\ [][\A o \in Objects, exc \in Failures :
             PumpRaise(o, exc) =>
                 LET new == NewEvents(o)
                 IN  /\ Len(new) \in {1, 2}
                     /\ new[1].type = "status"
                     /\ new[1].status = "error"
                     /\ "details" \in DOMAIN new[1]
                     /\ new[1].details = exc
                     /\ Len(new) = 2 => new[2].type = "secret"]_vars

\* C17 amended: as above, but the status 'error' carries the failure
\* description as details only when the description is not empty; for a
\* failure whose description is the empty string the event has no details.
C17_ErrorStatusOnFailure ==
    /\ [](\A o \in Objects : env[o].pump = "failed" =>
              sessions[o].completed /\ OneErrorStatus(sessions[o]))
    /\ [][\A o \in Objects, exc \in Failures :
             PumpRaise(o, exc) =>
                 LET new == NewEvents(o)
                 IN  /\ Len(new) \in {1, 2}
                     /\ new[1].type = "status"
                     /\ new[1].status = "error"
                     /\ IF exc = << >>
                        THEN "details" \notin DOMAIN new[1]
                        ELSE "details" \in DOMAIN new[1] /\ new[1].details = exc
                     /\ Len(new) = 2 => new[2].type = "secret"]_vars

\* C17 witness: the stream failed before any terminal result, after a chat
\* message with the marker: the error status, then the secret, end the output
C17_Witness ==
    \E o \in Objects :
        LET e == sessions[o].emitted
        IN  /\ env[o].pump = "failed"
            /\ ~env[o].result
            /\ Len(e) >= 3
            /\ e[Len(e) - 1].type = "status"
            /\ e[Len(e) - 1].status = "error"
            /\ e[Len(e)].type = "secret"

----------------------------------------------------------------------------
(* Properties of the marker tests (Spec) *)

\* the chat message an item of the stream carries, << >> if it carries none
ChatText(item) ==
    IF IsInstance(item, "Response") THEN <<item.chat_message.text>>
    ELSE IF IsInstance(item, "BaseChatMessage") THEN <<item.text>>
    ELSE << >>

\* C18: termination_detected holds exactly when an emitted chat message
\* contains the marker in upper case; a chat message that holds the marker in
\* another case only changes neither termination_detected nor secret_revealed
\* and emits no secret, while a terminal result whose stop reason contains the
\* marker in any case leaves the secret released.
C18_MarkerCase ==
    /\ [](\A o \in Objects :
             sessions[o].termination_detected <=>
                 \E i \in EventsOfType(sessions[o], "message") :
                     Contains(MARKER, sessions[o].emitted[i].content))
    /\ [][\A o \in Objects, item \in EngineItems :
             PumpItem(o, item) =>
                 /\ (ChatText(item) # << >> /\ ~Contains(MARKER, ChatText(item)[1])) =>
                        /\ sessions'[o].termination_detected = sessions[o].termination_detected
                        /\ sessions'[o].secret_revealed = sessions[o].secret_revealed
                        /\ \A i \in 1..Len(NewEvents(o)) : NewEvents(o)[i].type # "secret"
                 /\ (IsInstance(item, "TaskResult") /\ item.stop_reason # None
                        /\ Contains(MARKER, Upper(item.stop_reason[1]))) =>
                        /\ sessions'[o].secret_revealed
                        /\ EventsOfType(sessions'[o], "secret") # {}]_vars

\* C18 witness: a chat message 'terminate' was emitted without effect, and the
\* terminal result with stop reason 'terminate' released the secret
C18_Witness ==
    \E o \in Objects :
        /\ \E i \in EventsOfType(sessions[o], "message") :
              sessions[o].emitted[i].content = Str_terminate
        /\ ~sessions[o].termination_detected
        /\ sessions[o].stop_reason = Some(Str_terminate)
        /\ sessions[o].secret_revealed

----------------------------------------------------------------------------
(* Properties of the transcript (Spec) *)

InTranscript(payload) == payload.type \in {"message", "secret"}

\* C19: the transcript equals, in emission order, the emitted events of type
\* 'message' and 'secret', the greeting first; it only grows by appending; a
\* streaming chunk emits nothing; the handlers that drain the output queue
\* leave the transcript as it is.
C19_Transcript ==
    /\ [](\A o \in Objects :
             /\ sessions[o].history = SelectSeq(sessions[o].emitted, InTranscript)
             /\ sessions[o].history # << >>
             /\ sessions[o].history[1] =
                    [id |-> 1, type |-> "message", role |-> GREETING_ROLE,
                     content |-> GREETING_MESSAGE])
    /\ [][\A o \in Objects :
             /\ IsPrefix(sessions[o].history, sessions'[o].history)
             /\ \A item \in EngineItems :
                   (PumpItem(o, item) /\ IsInstance(item, "ModelClientStreamingChunkEvent"))
                       => sessions'[o] = sessions[o]
             /\ (\/ StartSessionReturn(o)
                 \/ \E id \in SessionIds, timeout \in Timeouts : GetEvents(1, id, timeout)
                 \/ GetEventsResume(1)
                 \/ GetEventsTimeout(1))
                    => sessions'[o].history = sessions[o].history]_vars

\* C19 witness: a session that emitted a status event next to the greeting, a
\* chat message and the secret, and whose output queue has been drained by a
\* polling client
C19_Witness ==
    \E o \in Objects :
        /\ Len(sessions[o].history) = 3
        /\ Len(sessions[o].emitted) = 4
        /\ EventsOfType(sessions[o], "status") # {}
        /\ EventsOfType(sessions[o], "secret") # {}
        /\ sessions[o].output_queue = << >>
        /\ lastResponse.op = "get_events"

----------------------------------------------------------------------------
(* Properties of the flags a client reads (Spec) *)

\* C20 as stated: completed never returns to false, and once a response of a
\* session has reported completed = true no event is emitted by the session
\* and secret_revealed does not change.
C20_NothingAfterCompleted ==
    [][\A o \in Objects :
          /\ sessions[o].completed => sessions'[o].completed
          /\ ghost[o].reported =>
                /\ NewEvents(o) = << >>
                /\ sessions'[o].secret_revealed = sessions[o].secret_revealed]_vars

\* C20 amended: completed never returns to false; once a response has reported
\* completed = true, secret_revealed does not change and the only event still
\* emitted is the status 'error' of a stream that fails after its terminal
\* result; the responses up to that one hold every message and secret event.
C20_FlagsFinal ==
    /\ [](\A o \in Objects :
             ghost[o].reported =>
                 SelectSeq(ghost[o].delivered, InTranscript)
                     = SelectSeq(sessions[o].emitted, InTranscript))
    /\ [][\A o \in Objects :
             /\ sessions[o].completed => sessions'[o].completed
             /\ ghost[o].reported =>
                   /\ sessions'[o].secret_revealed = sessions[o].secret_revealed
                   /\ \/ NewEvents(o) = << >>
                      \/ /\ env[o].result
                         /\ \E exc \in Failures : PumpRaise(o, exc)
                         /\ Len(NewEvents(o)) = 1
                         /\ NewEvents(o)[1].type = "status"
                         /\ NewEvents(o)[1].status = "error"]_vars

\* C20 witness: a response reported completed = true with the secret released
\* at the terminal result, then the stream failed and the error status is
\* still in the output queue
C20_Witness ==
    \E o \in Objects :
        /\ ghost[o].reported
        /\ sessions[o].secret_revealed
        /\ env[o].result
        /\ env[o].pump = "failed"
        /\ Len(sessions[o].output_queue) = 1
        /\ sessions[o].output_queue[1].type = "status"

----------------------------------------------------------------------------
(* Properties of the events endpoint (SpecPoll) *)

\* handler p answers in this step: 200, the events queued for session o at
\* this moment, in order, and the queue is left empty
Answers(p, o) ==
    /\ pollers'[p].pc = "idle"
    /\ lastResponse'.op = "get_events"
    /\ lastResponse'.status = 200
    /\ lastResponse'.events = sessions[o].output_queue
    /\ sessions'[o].output_queue = << >>

\* handler p is suspended after this step and nothing is taken or answered
Suspends(p, o) ==
    /\ pollers'[p].pc = "wait"
    /\ pollers'[p].obj = o
    /\ UNCHANGED <<sessions, lastResponse>>

\* get_events from the call to its first suspension or its answer, and when
\* the wait returned an item: the parts of C11 apart from the timeout
CallAndWake(p) ==
    /\ \A id \in DOMAIN registry, timeout \in Timeouts :
          GetEvents(p, id, timeout) =>
              IF timeout = 0 \/ sessions[registry[id]].output_queue # << >>
              THEN Answers(p, registry[id])
              ELSE Suspends(p, registry[id])
    /\ GetEventsResume(p) =>
          IF sessions[pollers[p].obj].output_queue # << >>
          THEN Answers(p, pollers[p].obj)
          ELSE Suspends(p, pollers[p].obj)

\* C11 as stated: a call with timeout 0 or with events queued answers at once
\* with the events queued; a call with timeout > 0 and nothing queued suspends
\* until an event arrives, and then answers with it and everything queued
\* behind it, or until the timeout lapses, and then answers 200 with an empty
\* events list.
C11_TimeoutAnswersEmpty ==
    [][\A p \in Pollers :
          /\ CallAndWake(p)
          /\ GetEventsTimeout(p) =>
                /\ Answers(p, pollers[p].obj)
                /\ lastResponse'.events = << >>]_vars

\* C11 amended: as above, but when the timeout lapses the handler answers 200
\* with the events queued at that moment, which may be none; a suspended
\* handler can always time out.
C11_GetEventsAnswers ==
    /\ [](\A p \in Pollers : pollers[p].pc # "idle" => ENABLED GetEventsTimeout(p))
    /\ [][\A p \in Pollers :
             /\ CallAndWake(p)
             /\ GetEventsTimeout(p) => Answers(p, pollers[p].obj)]_vars

\* C11 witness: the only handler of a session in flight was suspended, an event
\* arrived and the timeout lapsed before the handler resumed: the answer made
\* on the timeout path holds the event
C11_Witness ==
    /\ lastResponse.op = "get_events"
    /\ lastResponse.path = "timeout"
    /\ lastResponse.events # << >>
    /\ \A o \in Objects : ~ghost[o].overlap
    /\ \A p \in Pollers : pollers[p].pc = "idle"

----------------------------------------------------------------------------
(* Properties of a cancelled input wait (SpecInput) *)

\* C16: a cancellation of the input wait ends the request, takes nothing from
\* the input queue and returns nothing; every accepted message is, in posting
\* order, returned, held by the waiter of the request in progress or still
\* queued (so no cancelled waiter holds one); each value the callback returns
\* is the oldest accepted message not returned before.
C16_CancelLosesNothing ==
    /\ [](\A o \in Objects :
             /\ ghost[o].consumed \o Held(o) \o sessions[o].input_queue = ghost[o].accepted
             /\ env[o].inp.pc = "none" => Held(o) = << >>)
    /\ [][\A o \in Objects :
             /\ UserInputCancel(o) =>
                   /\ sessions'[o].input_queue = sessions[o].input_queue
                   /\ ghost'[o].consumed = ghost[o].consumed
                   /\ env'[o].inp = NoRequest
             /\ ghost'[o].consumed # ghost[o].consumed =>
                   /\ Len(ghost[o].accepted) > Len(ghost[o].consumed)
                   /\ ghost'[o].consumed =
                          Append(ghost[o].consumed,
                                 ghost[o].accepted[Len(ghost[o].consumed) + 1])]_vars

\* C16 witness: a message was posted while the callback waited, the wait was
\* cancelled before the waiter resumed, and later requests have returned every
\* accepted message
C16_Witness ==
    \E o \in Objects :
        /\ ghost[o].cancel_raced
        /\ Len(ghost[o].accepted) = 2
        /\ ghost[o].consumed = ghost[o].accepted
        /\ env[o].inp.pc = "none"

----------------------------------------------------------------------------
(* Properties of start() (SpecStart) *)

\* the greeting events a session has emitted
Greetings(s) ==
    {i \in EventsOfType(s, "message") :
        s.emitted[i].role = GREETING_ROLE /\ s.emitted[i].content = GREETING_MESSAGE}

\* C13: every session has emitted the greeting exactly once and has its one
\* task, however often start() was called; a call of start() after the first,
\* also one made while the first is suspended, changes nothing of the session,
\* of its task or of the handlers waiting on it.
C13_StartIdempotent ==
    /\ [](\A o \in Objects :
             /\ Cardinality(Greetings(sessions[o])) = 1
             /\ sessions[o].task = "running")
    /\ [][\A o \in Objects :
             StartAgain(o) =>
                 UNCHANGED <<sessions, registry, env, pollers, starters>>]_vars

\* C13 witness: start() was called again while the first call is suspended at
\* its yield, and the output still holds the one greeting
C13_Witness ==
    \E o \in Objects :
        /\ ghost[o].again
        /\ o \in starters
        /\ Len(sessions[o].output_queue) = 1
        /\ Greetings(sessions[o]) = {1}

----------------------------------------------------------------------------
(* Properties of the registry and of the first response (SpecRegistry) *)

GreetingEvent == [id |-> 1, type |-> "message", role |-> GREETING_ROLE,
                  content |-> GREETING_MESSAGE]

----------------------------------------------------------------------------
(* The end-to-end run (SpecLive) *)

\* the client has received the greeting, then a further message event, then
\* the secret event with the configured code, and the response sent last
\* reports completed and secret_unlocked
RunComplete ==
    \E o \in Objects :
        LET d == ghost[o].delivered
        IN  /\ \E j, k \in 1..Len(d) :
                  /\ 1 < j /\ j < k
                  /\ d[1] = GreetingEvent
                  /\ d[j].type = "message"
                  /\ d[k].type = "secret"
                  /\ d[k].content = SecretContent
            /\ lastResponse.op = "get_events"
            /\ lastResponse.obj = o
            /\ lastResponse.completed
            /\ lastResponse.secret_unlocked

\* C12: in the run create session, post 'hi', post the trigger, keep polling,
\* with the pump scheduled fairly, the client eventually has received the
\* greeting, a further message and then the secret event with the configured
\* code, and from then on every response reports completed = true and
\* secret_unlocked = true.
C12_EndToEnd == <>[]RunComplete

\* C12 witness: the run has delivered everything and the polling client is
\* waiting in a further long-poll of the completed session
C12_Witness ==
    /\ RunComplete
    /\ pollers[1].pc = "wait"
    /\ nPosts = 2

====
